---- MODULE Spec2Model ----
(***************************************************************************)
(* Model of src/src/dispatch_demo.py: a single-pass batch matcher.         *)
(* Agent rows are loaded and stably sorted by queue_rank; tasks are split  *)
(* into a confirmed and a planned frame; confirmed tasks take the first    *)
(* eligible agent and consume it, planned tasks take the eligible agent at *)
(* rr_index modulo the number of candidates.  One decision record is       *)
(* appended per processed task.                                            *)
(*                                                                         *)
(* Text that the program converts (the skills cell, the is_available cell, *)
(* the required_skill cell) is a sequence of one-character strings, so     *)
(* that split / strip / upper are computed and not assumed.                *)
(***************************************************************************)
EXTENDS Integers, Sequences, FiniteSets, TLC

VARIABLES
    agent_rows,   \* rows of agents.csv, in file order
    task_rows,    \* rows of tasks.csv, in file order
    agents,       \* main(): agents, the loaded roster (List[Agent])
    confirmed,    \* main(): confirmed, the rows with is_confirmed == True
    planned,      \* main(): planned, the rows with is_confirmed == False
    results,      \* main(): results, the decision records
    rr_index,     \* main(): rr_index, Unbound until line 112 binds it
    c_pos,        \* number of rows of confirmed the first loop has consumed
    p_pos,        \* number of rows of planned the second loop has consumed
    pc            \* position of main(): "start", "confirmed", "planned", "done"

vars == <<agent_rows, task_rows, agents, confirmed, planned, results,
          rr_index, c_pos, p_pos, pc>>

-----------------------------------------------------------------------------
(* Bounds of the model. *)

MaxAgents == 2
MaxTasks == 3

(* rr_index does not exist before the planned pass binds it. *)
Unbound == -1

-----------------------------------------------------------------------------
(* Input domains. *)

AgentIds == <<"A1", "A2", "A3", "A4", "A5">>
TaskIds == <<"T1", "T2", "T3", "T4", "T5", "T6">>

Zones == {"Z1", "Z2"}
Ranks == {1, 2}
TaskTypes == {"repair"}

SkillX == <<"x">>
SkillY == <<"y">>
RequiredSkills == {SkillX, SkillY}

CellTRUE == <<"T", "R", "U", "E">>
CellTrue == <<"T", "r", "u", "e">>
CellFalse == <<"F", "a", "l", "s", "e">>
CellYes == <<"y", "e", "s">>

FlagTrue == "True"
FlagFalse == "False"
ConfirmFlags == {FlagTrue, FlagFalse}
(* An is_confirmed cell left empty is read as NaN. *)
FlagMissing == "nan"

(* Variant: the unmatched reason is worded differently. *)
REASON_NONE_reworded == "no eligible agent available"

(* Variant: the planned reason repeats the confirmed one. *)
REASON_PLANNED_copied == "confirmed task assigned by top-of-queue (fairness)"

REASON_NONE == "no eligible agent available in same zone"
REASON_CONFIRMED == "confirmed task assigned by top-of-queue (fairness)"
REASON_PLANNED == "planned task assigned by round-robin (fair distribution)"

SeqsUpTo(S, n) == UNION {[1..k -> S] : k \in 0..n}

(* The agent rows the roster is drawn from.  Two kinds compete for tasks   *)
(* and come with every rank; two kinds can be taken by no task and come    *)
(* with the lowest rank only, where they would otherwise be picked first.  *)
AgentKinds ==
    { \* takes skill x in zone Z1
      [skills |-> <<"x">>, zone |-> "Z1", is_available |-> CellTrue],
      \* takes skill y in zone Z2; has x too, in the wrong zone
      [skills |-> <<"x", ";", " ", "y", ";">>, zone |-> "Z2", is_available |-> CellTRUE] }

IdleKinds ==
    { \* available, but lacks y in Z2 and is not in Z1 for x
      [skills |-> <<"x">>, zone |-> "Z2", is_available |-> CellTrue],
      \* would take x in Z1, but is not available
      [skills |-> <<"x", ";", " ", "y", ";">>, zone |-> "Z1", is_available |-> CellFalse] }

AgentCells ==
    {[skills |-> k.skills, zone |-> k.zone, is_available |-> k.is_available,
      queue_rank |-> r] : k \in AgentKinds, r \in Ranks}
    \cup
    {[skills |-> k.skills, zone |-> k.zone, is_available |-> k.is_available,
      queue_rank |-> 1] : k \in IdleKinds}

(* What a task asks for: skill x in zone Z1, or skill y in zone Z2. *)
TaskTargets == {<<SkillX, "Z1">>, <<SkillY, "Z2">>}

TaskCells ==
    {c \in [required_skill : RequiredSkills, zone : Zones,
            is_confirmed : ConfirmFlags, task_type : TaskTypes] :
        <<c.required_skill, c.zone>> \in TaskTargets}

(* Rows a careless file may hold as well: an agent whose is_available cell *)
(* is neither TRUE nor FALSE, a task whose is_confirmed cell is empty.     *)
MalformedAgentCells ==
    AgentCells \cup
    {[skills |-> <<"x">>, zone |-> "Z1", is_available |-> CellYes, queue_rank |-> 1]}

MalformedTaskCells ==
    TaskCells \cup
    {[required_skill |-> t[1], zone |-> t[2], is_confirmed |-> FlagMissing,
      task_type |-> ty] : t \in TaskTargets, ty \in TaskTypes}

(* Rows get their identity from their position in the file: ids are unique. *)
AgentRowsOf(cells) ==
    [k \in 1..Len(cells) |->
        [agent_id |-> AgentIds[k], skills |-> cells[k].skills,
         zone |-> cells[k].zone, is_available |-> cells[k].is_available,
         queue_rank |-> cells[k].queue_rank]]

TaskRowsOf(cells) ==
    [k \in 1..Len(cells) |->
        [task_id |-> TaskIds[k], task_type |-> cells[k].task_type,
         required_skill |-> cells[k].required_skill, zone |-> cells[k].zone,
         is_confirmed |-> cells[k].is_confirmed]]

-----------------------------------------------------------------------------
(* Text helpers. *)

Whitespace == {" "}

LowerToUpper == [a |-> "A", e |-> "E", l |-> "L", r |-> "R", s |-> "S",
                 t |-> "T", u |-> "U", x |-> "X", y |-> "Y"]

(* str.upper() *)
Upper(s) ==
    [k \in 1..Len(s) |->
        IF s[k] \in DOMAIN LowerToUpper THEN LowerToUpper[s[k]] ELSE s[k]]

(* str.split(d): the pieces between occurrences of d, empty pieces kept. *)
RECURSIVE Split(_, _)
Split(s, d) ==
    IF \A k \in 1..Len(s) : s[k] # d
    THEN <<s>>
    ELSE LET k == CHOOSE j \in 1..Len(s) :
                      s[j] = d /\ \A h \in 1..(j - 1) : s[h] # d
         IN <<SubSeq(s, 1, k - 1)>> \o Split(SubSeq(s, k + 1, Len(s)), d)

(* str.strip() *)
Strip(s) ==
    LET keep == {k \in 1..Len(s) : s[k] \notin Whitespace}
    IN IF keep = {} THEN <<>>
       ELSE LET lo == CHOOSE k \in keep : \A h \in keep : k <= h
                hi == CHOOSE k \in keep : \A h \in keep : h <= k
            IN SubSeq(s, lo, hi)

parse_skills(raw) ==
    LET parts == Split(raw, ";")
    IN {Strip(parts[k]) : k \in {j \in 1..Len(parts) : Strip(parts[j]) # <<>>}}

-----------------------------------------------------------------------------
(* load_agents *)

Agent(r) ==
    [agent_id |-> r.agent_id,
     skills |-> parse_skills(r.skills),
     zone |-> r.zone,
     is_available |-> (Upper(r.is_available) = CellTRUE),
     queue_rank |-> r.queue_rank]

(* Variant: the sort is not stable, equal keys end up in reverse order. *)
RECURSIVE SortByRank_unstable(_)
SortByRank_unstable(s) ==
    IF s = <<>> THEN <<>>
    ELSE LET front == SortByRank_unstable(SubSeq(s, 1, Len(s) - 1))
             a == s[Len(s)]
             n == Cardinality({k \in 1..Len(front) :
                                  front[k].queue_rank < a.queue_rank})
         IN SubSeq(front, 1, n) \o <<a>> \o SubSeq(front, n + 1, Len(front))

(* list.sort(key=queue_rank) is stable: an element goes after every element *)
(* whose key is not greater.                                                *)
RECURSIVE SortByRank(_)
SortByRank(s) ==
    IF s = <<>> THEN <<>>
    ELSE LET front == SortByRank(SubSeq(s, 1, Len(s) - 1))
             a == s[Len(s)]
             n == Cardinality({k \in 1..Len(front) :
                                  front[k].queue_rank <= a.queue_rank})
         IN SubSeq(front, 1, n) \o <<a>> \o SubSeq(front, n + 1, Len(front))

load_agents(rows) == SortByRank([k \in 1..Len(rows) |-> Agent(rows[k])])

-----------------------------------------------------------------------------
(* Selection. *)

(* Variant: availability is not tested. *)
Qualifies_any_availability(a, required_skill, zone) ==
    required_skill \in a.skills /\ a.zone = zone

(* Variant: the skill is not tested. *)
Qualifies_any_skill(a, required_skill, zone) ==
    a.is_available /\ a.zone = zone

(* Variant: the zone is not tested. *)
Qualifies_any_zone(a, required_skill, zone) ==
    a.is_available /\ required_skill \in a.skills

(* The test of the comprehension at line 51. *)
Qualifies(a, required_skill, zone) ==
    a.is_available /\ required_skill \in a.skills /\ a.zone = zone

(* The comprehension walks the roster front to back.  The returned list    *)
(* holds references to the roster's own Agent objects: a reference is the  *)
(* object's position in the roster.                                        *)
RECURSIVE eligible_from(_, _, _, _)
eligible_from(roster, required_skill, zone, k) ==
    IF k > Len(roster) THEN <<>>
    ELSE (IF Qualifies(roster[k], required_skill, zone) THEN <<k>> ELSE <<>>)
         \o eligible_from(roster, required_skill, zone, k + 1)

eligible_agents(roster, required_skill, zone) ==
    eligible_from(roster, required_skill, zone, 1)

(* Variant: the last candidate is taken, not the first. *)
pick_by_queue_last(candidates) ==
    IF candidates # <<>> THEN <<candidates[Len(candidates)]>> ELSE <<>>

(* Optional[Agent]: None is the empty sequence, an agent is a one-element  *)
(* sequence holding its reference.                                         *)
pick_by_queue(candidates) ==
    IF candidates # <<>> THEN <<candidates[1]>> ELSE <<>>

(* Variant: the cursor is ignored, as in pick_by_queue. *)
round_robin_pick_first(candidates, index) ==
    IF candidates = <<>> THEN <<>> ELSE <<candidates[1]>>

(* Variant: the cursor is clamped to the last position instead of wrapped. *)
round_robin_pick_clamped(candidates, index) ==
    IF candidates = <<>> THEN <<>>
    ELSE <<candidates[(IF index < Len(candidates) THEN index
                       ELSE Len(candidates) - 1) + 1]>>

(* Variant: the cursor is counted from the back and never wraps forward. *)
round_robin_pick_last(candidates, index) ==
    IF candidates = <<>> THEN <<>> ELSE <<candidates[Len(candidates)]>>

round_robin_pick(candidates, index) ==
    IF candidates = <<>> THEN <<>>
    ELSE <<candidates[(index % Len(candidates)) + 1]>>

-----------------------------------------------------------------------------
(* main *)

Init ==
    /\ \E cells \in SeqsUpTo(AgentCells, MaxAgents) : agent_rows = AgentRowsOf(cells)
    /\ \E cells \in SeqsUpTo(TaskCells, MaxTasks) : task_rows = TaskRowsOf(cells)
    /\ agents = <<>>
    /\ confirmed = <<>>
    /\ planned = <<>>
    /\ results = <<>>
    /\ rr_index = Unbound
    /\ c_pos = 0
    /\ p_pos = 0
    /\ pc = "start"

(* The same program started on files that may hold malformed rows. *)
InitMalformed ==
    /\ \E cells \in SeqsUpTo(MalformedAgentCells, MaxAgents) :
          agent_rows = AgentRowsOf(cells)
    /\ \E cells \in SeqsUpTo(MalformedTaskCells, MaxTasks) :
          task_rows = TaskRowsOf(cells)
    /\ agents = <<>>
    /\ confirmed = <<>>
    /\ planned = <<>>
    /\ results = <<>>
    /\ rr_index = Unbound
    /\ c_pos = 0
    /\ p_pos = 0
    /\ pc = "start"

(* Variant: the confirmed frame selects on the planned value. *)
IsConfirmed_negated(t) == t.is_confirmed = FlagFalse

(* Variant: the planned frame repeats the confirmed selection. *)
IsPlanned_copied(t) == t.is_confirmed = FlagTrue

(* Line 74: tasks["is_confirmed"] == True *)
IsConfirmed(t) == t.is_confirmed = FlagTrue

(* Line 75: tasks["is_confirmed"] == False *)
IsPlanned(t) == t.is_confirmed = FlagFalse

Record(t, assigned_agent, decision_reason) ==
    [task_id |-> t.task_id,
     task_type |-> t.task_type,
     required_skill |-> t.required_skill,
     zone |-> t.zone,
     assigned_agent |-> assigned_agent,
     decision_reason |-> decision_reason]

(* Lines 71-77: load the roster, split the tasks, start with no results. *)
Load ==
    /\ pc = "start"
    /\ agents' = load_agents(agent_rows)
    /\ confirmed' = SelectSeq(task_rows, IsConfirmed)
    /\ planned' = SelectSeq(task_rows, IsPlanned)
    /\ results' = <<>>
    /\ pc' = "confirmed"
    /\ UNCHANGED <<agent_rows, task_rows, rr_index, c_pos, p_pos>>

(* Variant: an unmatched confirmed task continues without a record. *)
ConfirmedStep_silent ==
    /\ pc = "confirmed"
    /\ c_pos < Len(confirmed)
    /\ LET t == confirmed[c_pos + 1]
           candidates == eligible_agents(agents, t.required_skill, t.zone)
           chosen == pick_by_queue(candidates)
       IN IF chosen = <<>>
          THEN /\ results' = results
               /\ agents' = agents
          ELSE /\ agents' = [agents EXCEPT ![chosen[1]].is_available = FALSE]
               /\ results' = Append(results,
                       Record(t, agents[chosen[1]].agent_id, REASON_CONFIRMED))
    /\ c_pos' = c_pos + 1
    /\ UNCHANGED <<agent_rows, task_rows, confirmed, planned, rr_index, p_pos, pc>>

(* Variant: every candidate is marked unavailable, not only the chosen one. *)
ConfirmedStep_consume_all ==
    /\ pc = "confirmed"
    /\ c_pos < Len(confirmed)
    /\ LET t == confirmed[c_pos + 1]
           candidates == eligible_agents(agents, t.required_skill, t.zone)
           chosen == pick_by_queue(candidates)
       IN IF chosen = <<>>
          THEN /\ results' = Append(results, Record(t, "", REASON_NONE))
               /\ agents' = agents
          ELSE /\ agents' = [k \in 1..Len(agents) |->
                                IF \E i \in 1..Len(candidates) : candidates[i] = k
                                THEN [agents[k] EXCEPT !.is_available = FALSE]
                                ELSE agents[k]]
               /\ results' = Append(results,
                       Record(t, agents[chosen[1]].agent_id, REASON_CONFIRMED))
    /\ c_pos' = c_pos + 1
    /\ UNCHANGED <<agent_rows, task_rows, confirmed, planned, rr_index, p_pos, pc>>

(* Lines 80-109: one iteration of the confirmed loop. *)
ConfirmedStep ==
    /\ pc = "confirmed"
    /\ c_pos < Len(confirmed)
    /\ LET t == confirmed[c_pos + 1]
           candidates == eligible_agents(agents, t.required_skill, t.zone)
           chosen == pick_by_queue(candidates)
       IN IF chosen = <<>>
          THEN /\ results' = Append(results, Record(t, "", REASON_NONE))
               /\ agents' = agents
          ELSE /\ agents' = [agents EXCEPT ![chosen[1]].is_available = FALSE]
               /\ results' = Append(results,
                       Record(t, agents[chosen[1]].agent_id, REASON_CONFIRMED))
    /\ c_pos' = c_pos + 1
    /\ UNCHANGED <<agent_rows, task_rows, confirmed, planned, rr_index, p_pos, pc>>

(* Line 112: the confirmed loop is exhausted, the cursor is bound to 0. *)
StartPlanned ==
    /\ pc = "confirmed"
    /\ c_pos = Len(confirmed)
    /\ rr_index' = 0
    /\ pc' = "planned"
    /\ UNCHANGED <<agent_rows, task_rows, agents, confirmed, planned, results,
                   c_pos, p_pos>>

(* Variant: a planned assignment consumes the agent, as line 99 does. *)
PlannedStep_consuming ==
    /\ pc = "planned"
    /\ p_pos < Len(planned)
    /\ LET t == planned[p_pos + 1]
           candidates == eligible_agents(agents, t.required_skill, t.zone)
           chosen == round_robin_pick(candidates, rr_index)
       IN IF chosen = <<>>
          THEN /\ results' = Append(results, Record(t, "", REASON_NONE))
               /\ agents' = agents
          ELSE /\ agents' = [agents EXCEPT ![chosen[1]].is_available = FALSE]
               /\ results' = Append(results,
                       Record(t, agents[chosen[1]].agent_id, REASON_PLANNED))
    /\ rr_index' = rr_index + 1
    /\ p_pos' = p_pos + 1
    /\ UNCHANGED <<agent_rows, task_rows, confirmed, planned, c_pos, pc>>

(* Variant: the cursor advances after the unmatched branch has continued,  *)
(* so only a matched task advances it.                                     *)
PlannedStep_advance_on_match ==
    /\ pc = "planned"
    /\ p_pos < Len(planned)
    /\ LET t == planned[p_pos + 1]
           candidates == eligible_agents(agents, t.required_skill, t.zone)
           chosen == round_robin_pick(candidates, rr_index)
       IN IF chosen = <<>>
          THEN /\ results' = Append(results, Record(t, "", REASON_NONE))
               /\ rr_index' = rr_index
          ELSE /\ results' = Append(results,
                       Record(t, agents[chosen[1]].agent_id, REASON_PLANNED))
               /\ rr_index' = rr_index + 1
    /\ p_pos' = p_pos + 1
    /\ UNCHANGED <<agent_rows, task_rows, agents, confirmed, planned, c_pos, pc>>

(* Lines 113-142: one iteration of the planned loop. *)
PlannedStep ==
    /\ pc = "planned"
    /\ p_pos < Len(planned)
    /\ LET t == planned[p_pos + 1]
           candidates == eligible_agents(agents, t.required_skill, t.zone)
           chosen == round_robin_pick(candidates, rr_index)
       IN IF chosen = <<>>
          THEN results' = Append(results, Record(t, "", REASON_NONE))
          ELSE results' = Append(results,
                       Record(t, agents[chosen[1]].agent_id, REASON_PLANNED))
    /\ rr_index' = rr_index + 1
    /\ p_pos' = p_pos + 1
    /\ UNCHANGED <<agent_rows, task_rows, agents, confirmed, planned, c_pos, pc>>

(* Lines 144-149: the planned loop is exhausted, the records are handed over. *)
Finish ==
    /\ pc = "planned"
    /\ p_pos = Len(planned)
    /\ pc' = "done"
    /\ UNCHANGED <<agent_rows, task_rows, agents, confirmed, planned, results,
                   rr_index, c_pos, p_pos>>

Next ==
    \/ Load
    \/ ConfirmedStep
    \/ StartPlanned
    \/ PlannedStep
    \/ Finish

Spec == Init /\ [][Next]_vars

SpecMalformed == InitMalformed /\ [][Next]_vars

-----------------------------------------------------------------------------
(* Vocabulary of the properties. *)

Range(s) == {s[k] : k \in 1..Len(s)}

(* The input row a decision record belongs to, by task id. *)
RowIndex(r) == CHOOSE k \in 1..Len(task_rows) : task_rows[k].task_id = r.task_id
RowOf(r) == task_rows[RowIndex(r)]
OfConfirmed(r) == RowOf(r).is_confirmed = FlagTrue
OfPlanned(r) == RowOf(r).is_confirmed = FlagFalse
Matched(r) == r.assigned_agent # ""

-----------------------------------------------------------------------------
(* C1: when the run has completed, there is exactly one decision record    *)
(* per input task: as many records as tasks, and every task id in exactly  *)
(* one record, matched or not.                                             *)
C1_OneRecordPerTask ==
    pc = "done" =>
        /\ Len(results) = Len(task_rows)
        /\ \A k \in 1..Len(task_rows) :
              Cardinality({j \in 1..Len(results) :
                              results[j].task_id = task_rows[k].task_id}) = 1

C1_Witness ==
    /\ pc = "done"
    /\ Len(task_rows) = 3
    /\ \E i, j \in 1..Len(results) : Matched(results[i]) /\ ~Matched(results[j])
    /\ \E i, j \in 1..Len(results) : OfConfirmed(results[i]) /\ OfPlanned(results[j])

(* C2: in the record sequence no record of a planned task precedes a       *)
(* record of a confirmed task, and two records of the same class stand in  *)
(* the order of their tasks in the input.                                  *)
C2_ClassThenInputOrder ==
    LET row == [j \in 1..Len(results) |-> RowIndex(results[j])]
        flag == [j \in 1..Len(results) |-> task_rows[row[j]].is_confirmed]
    IN \A j \in 1..Len(results) :
           \A i \in 1..(j - 1) :
               /\ flag[i] = FlagFalse => flag[j] = FlagFalse
               /\ flag[i] = flag[j] => row[i] < row[j]

(* A planned task came first in the input and its record came last; both  *)
(* classes kept their own order.                                           *)
C2_Witness ==
    /\ pc = "done"
    /\ Len(results) = 3
    /\ OfPlanned(task_rows[1]) /\ OfConfirmed(task_rows[2])
    /\ results[1].task_id = task_rows[2].task_id
    /\ \E j \in 2..3 : results[j].task_id = task_rows[1].task_id

(* C3: an agent assigned to a confirmed task is named by no later record,  *)
(* confirmed or planned.                                                   *)
C3_ConsumedNeverReassigned ==
    \A i \in 1..Len(results) :
        (OfConfirmed(results[i]) /\ Matched(results[i])) =>
            \A j \in (i + 1)..Len(results) :
                results[j].assigned_agent # results[i].assigned_agent

(* A confirmed assignment is followed by a confirmed and by a planned task *)
(* asking for the same skill and zone.                                     *)
C3_Witness ==
    /\ Len(results) = 3
    /\ OfConfirmed(results[1]) /\ Matched(results[1])
    /\ OfConfirmed(results[2]) /\ OfPlanned(results[3])
    /\ \A j \in 2..3 : /\ results[j].required_skill = results[1].required_skill
                        /\ results[j].zone = results[1].zone
    /\ Matched(results[2])

-----------------------------------------------------------------------------
(* Vocabulary of the properties about agents. *)

(* The position at which an agent was supplied, its rank there, and        *)
(* whether its row made it available at load.                              *)
SuppliedIndex(id) == CHOOSE k \in 1..Len(agent_rows) : agent_rows[k].agent_id = id
SuppliedRank(id) == agent_rows[SuppliedIndex(id)].queue_rank
AvailableAtLoad(id) == Upper(agent_rows[SuppliedIndex(id)].is_available) = CellTRUE

(* The agents eligible for the task of record j at the moment it was       *)
(* processed: skill and zone fit, available at load, and taken by no       *)
(* confirmed task processed before.                                        *)
ConsumedBefore(j) ==
    {results[i].assigned_agent :
        i \in {h \in 1..(j - 1) : OfConfirmed(results[h]) /\ Matched(results[h])}}

EligibleAt(j) ==
    LET consumed == ConsumedBefore(j)
        fit == {k \in 1..Len(agents) :
                   /\ results[j].required_skill \in agents[k].skills
                   /\ agents[k].zone = results[j].zone
                   /\ AvailableAtLoad(agents[k].agent_id)
                   /\ agents[k].agent_id \notin consumed}
    IN {agents[k].agent_id : k \in fit}

PlannedBefore(j) == Cardinality({i \in 1..(j - 1) : OfPlanned(results[i])})

-----------------------------------------------------------------------------
(* C4: a step of the planned pass changes no agent of the roster, matched  *)
(* or not, and an agent assigned to a planned task is still available      *)
(* afterwards.                                                             *)
C4_PlannedKeepsRoster ==
    /\ [][pc = "planned" => agents' = agents]_vars
    /\ [](\A j \in 1..Len(results) :
             (OfPlanned(results[j]) /\ Matched(results[j])) =>
                 \E k \in 1..Len(agents) :
                     /\ agents[k].agent_id = results[j].assigned_agent
                     /\ agents[k].is_available)

(* The same agent served two planned tasks, and a planned task went        *)
(* unmatched.                                                              *)
C4_Witness ==
    /\ pc = "done"
    /\ \E i, j \in 1..Len(results) :
          /\ i < j
          /\ OfPlanned(results[i]) /\ Matched(results[i])
          /\ results[j].assigned_agent = results[i].assigned_agent
    /\ \E j \in 1..Len(results) : OfPlanned(results[j]) /\ ~Matched(results[j])

(* C5: the cursor does not exist during the confirmed pass, is 0 when the  *)
(* planned pass starts, equals the number of planned tasks processed so    *)
(* far, matched or not, and ends at the number of planned tasks.           *)
C5_CursorCountsPlanned ==
    /\ pc \in {"start", "confirmed"} => rr_index = Unbound
    /\ pc \in {"planned", "done"} =>
          rr_index = Cardinality({j \in 1..Len(results) : OfPlanned(results[j])})
    /\ pc = "done" =>
          rr_index = Cardinality({k \in 1..Len(task_rows) :
                                     task_rows[k].is_confirmed = FlagFalse})

C5_Witness ==
    /\ pc = "done"
    /\ rr_index = 3
    /\ \E i, j \in 1..Len(results) :
          /\ OfPlanned(results[i]) /\ ~Matched(results[i])
          /\ OfPlanned(results[j]) /\ Matched(results[j])

(* C6: the agent assigned to a confirmed task has the minimum queue rank   *)
(* among the agents eligible at that moment, and among those of that rank  *)
(* it is the one supplied first.                                           *)
C6_MinRankEarliestSupplied ==
    \A j \in 1..Len(results) :
        (OfConfirmed(results[j]) /\ Matched(results[j])) =>
            LET a == results[j].assigned_agent
                eligible == EligibleAt(j)
            IN /\ a \in eligible
               /\ \A b \in eligible :
                     \/ SuppliedRank(a) < SuppliedRank(b)
                     \/ /\ SuppliedRank(a) = SuppliedRank(b)
                        /\ SuppliedIndex(a) <= SuppliedIndex(b)

(* The chosen agent was supplied after an eligible agent of higher rank. *)
C6_Witness ==
    \E j \in 1..Len(results) :
        /\ OfConfirmed(results[j]) /\ Matched(results[j])
        /\ \E b \in EligibleAt(j) :
              /\ SuppliedIndex(b) < SuppliedIndex(results[j].assigned_agent)
              /\ SuppliedRank(b) > SuppliedRank(results[j].assigned_agent)

(* C7: for every skill and zone, the filter returns the roster positions   *)
(* of exactly the agents that are available, have the skill and are in the *)
(* zone, in roster order; none qualifying gives the empty sequence.        *)
C7_EligibleExactlyQualifying ==
    \A s \in RequiredSkills, z \in Zones :
        LET e == eligible_agents(agents, s, z)
        IN /\ \A i, j \in 1..Len(e) : i < j => e[i] < e[j]
           /\ Range(e) = {k \in 1..Len(agents) :
                             /\ agents[k].is_available = TRUE
                             /\ s \in agents[k].skills
                             /\ agents[k].zone = z}

(* The first agent of the roster has been consumed and is left out, the    *)
(* second is returned; another skill and zone gives the empty sequence.    *)
C7_Witness ==
    /\ Len(agents) = 2
    /\ ~agents[1].is_available
    /\ \E j \in 1..Len(results) : results[j].assigned_agent = agents[1].agent_id
    /\ eligible_agents(agents, SkillX, "Z1") = <<2>>
    /\ eligible_agents(agents, SkillY, "Z2") = <<>>

(* C8: a planned task with candidates is assigned the candidate at         *)
(* position (cursor mod number of candidates), the cursor being the number *)
(* of planned tasks processed before it; with no candidate it is assigned  *)
(* no agent.                                                               *)
C8_PlannedPickAtCursor ==
    \A j \in 1..Len(results) :
        OfPlanned(results[j]) =>
            LET cands == eligible_agents(agents, results[j].required_skill,
                                         results[j].zone)
                cursor == PlannedBefore(j)
            IN IF cands = <<>>
               THEN results[j].assigned_agent = ""
               ELSE results[j].assigned_agent =
                        agents[cands[(cursor % Len(cands)) + 1]].agent_id

(* Three planned tasks share two candidates: first, second, first again;   *)
(* the cursor has wrapped.                                                 *)
C8_Witness ==
    /\ pc = "done"
    /\ Len(results) = 3
    /\ \A j \in 1..3 : OfPlanned(results[j]) /\ Matched(results[j])
    /\ Len(eligible_agents(agents, results[1].required_skill, results[1].zone)) = 2
    /\ results[1].assigned_agent # results[2].assigned_agent
    /\ results[3].assigned_agent = results[1].assigned_agent

(* C9: a record has the empty assigned agent exactly when no agent was     *)
(* eligible for its task when it was processed, and its reason is fixed by *)
(* class and outcome.                                                      *)
C9_SentinelAndReason ==
    \A j \in 1..Len(results) :
        LET none_eligible == (EligibleAt(j) = {})
        IN /\ (results[j].assigned_agent = "") <=> none_eligible
           /\ results[j].decision_reason =
                 IF none_eligible
                 THEN "no eligible agent available in same zone"
                 ELSE IF OfConfirmed(results[j])
                      THEN "confirmed task assigned by top-of-queue (fairness)"
                      ELSE "planned task assigned by round-robin (fair distribution)"

(* All three outcomes in one run. *)
C9_Witness ==
    /\ pc = "done"
    /\ \E i, j, k \in 1..Len(results) :
          /\ OfConfirmed(results[i]) /\ Matched(results[i])
          /\ OfPlanned(results[j]) /\ Matched(results[j])
          /\ ~Matched(results[k])

(* C10 as stated: four reason strings, one per combination of class and    *)
(* outcome, so records of different combinations differ in their reason.   *)
C10_OneReasonPerCombination ==
    \A i, j \in 1..Len(results) :
        (<<OfConfirmed(results[i]), Matched(results[i])>>
            # <<OfConfirmed(results[j]), Matched(results[j])>>)
        => results[i].decision_reason # results[j].decision_reason

(* C10: the reason is one of three fixed strings: one for a matched        *)
(* confirmed task, one for a matched planned task, and one shared by the   *)
(* unmatched tasks of both classes.                                        *)
C10_ThreeReasons ==
    /\ \A j \in 1..Len(results) :
          results[j].decision_reason \in
              {"confirmed task assigned by top-of-queue (fairness)",
               "planned task assigned by round-robin (fair distribution)",
               "no eligible agent available in same zone"}
    /\ \A j \in 1..Len(results) : \A i \in 1..(j - 1) :
          (results[i].decision_reason = results[j].decision_reason)
          <=> \/ ~Matched(results[i]) /\ ~Matched(results[j])
              \/ /\ Matched(results[i]) /\ Matched(results[j])
                 /\ OfConfirmed(results[i]) <=> OfConfirmed(results[j])

(* An unmatched confirmed task and an unmatched planned task, next to a    *)
(* matched one.                                                            *)
C10_Witness ==
    \E i, j, k \in 1..Len(results) :
        /\ OfConfirmed(results[i]) /\ ~Matched(results[i])
        /\ OfPlanned(results[j]) /\ ~Matched(results[j])
        /\ Matched(results[k])

-----------------------------------------------------------------------------
(* Vocabulary of the properties about malformed rows. *)

Unparseable(cell) == Upper(cell) \notin {Upper(CellTRUE), Upper(CellFalse)}
HasUnparseableFlag ==
    \E k \in 1..Len(agent_rows) : Unparseable(agent_rows[k].is_available)
HasMalformedConfirmation ==
    \E k \in 1..Len(task_rows) : task_rows[k].is_confirmed \notin {FlagTrue, FlagFalse}

(* C12: an agent row whose availability flag is neither TRUE nor FALSE     *)
(* aborts the run: no roster is loaded from it, no decision record is      *)
(* produced and the run does not complete.                                 *)
C12_UnparseableFlagAborts ==
    HasUnparseableFlag => (agents = <<>> /\ results = <<>> /\ pc # "done")

(* C13: once the tasks are split, every task is in exactly one of the two  *)
(* frames, and a task whose confirmation flag is neither true nor false    *)
(* stops the run before the split.                                         *)
C13_OnePartitionOrFailFast ==
    /\ pc # "start" =>
          \A k \in 1..Len(task_rows) :
              Cardinality({i \in 1..Len(confirmed) : confirmed[i] = task_rows[k]})
              + Cardinality({i \in 1..Len(planned) : planned[i] = task_rows[k]}) = 1
    /\ HasMalformedConfirmation => (pc = "start" /\ results = <<>>)

-----------------------------------------------------------------------------
(* C14: with an empty roster or an empty task list the run is never stuck *)
(* short of completion: once loaded, a loop iteration, the cursor binding  *)
(* or the hand-over can be taken.  An empty task list gives no record; an  *)
(* empty roster gives every task an unmatched record with the unmatched    *)
(* reason, and the cursor still ends at the number of planned tasks.       *)
C14_EmptyInputsComplete ==
    /\ ((agent_rows = <<>> \/ task_rows = <<>>) /\ pc \notin {"start", "done"}) =>
          \/ ENABLED ConfirmedStep
          \/ ENABLED StartPlanned
          \/ ENABLED PlannedStep
          \/ ENABLED Finish
    /\ task_rows = <<>> => results = <<>>
    /\ agent_rows = <<>> =>
          \A j \in 1..Len(results) :
              /\ results[j].assigned_agent = ""
              /\ results[j].decision_reason = "no eligible agent available in same zone"
    /\ (agent_rows = <<>> /\ pc = "done") =>
          /\ Len(results) = Len(task_rows)
          /\ rr_index = Cardinality({k \in 1..Len(task_rows) :
                                        task_rows[k].is_confirmed = FlagFalse})

(* An empty roster met three tasks of both classes and the run completed. *)
C14_Witness ==
    /\ pc = "done"
    /\ agent_rows = <<>>
    /\ Len(task_rows) = 3
    /\ rr_index = 2
    /\ \E j \in 1..Len(results) : OfConfirmed(results[j])

-----------------------------------------------------------------------------
(* Vocabulary of the properties about groups of tasks. *)

SameTarget(r, q) == r.required_skill = q.required_skill /\ r.zone = q.zone

(* The agents eligible for the task of a record when the run started. *)
EligibleAtLoad(r) ==
    {agents[k].agent_id :
        k \in {h \in 1..Len(agents) :
                  /\ r.required_skill \in agents[h].skills
                  /\ agents[h].zone = r.zone
                  /\ AvailableAtLoad(agents[h].agent_id)}}

(* The positions in results of the planned records, in order. *)
PlannedPositions ==
    SelectSeq([j \in 1..Len(results) |-> j], LAMBDA j : OfPlanned(results[j]))

(* How many planned tasks asking for what record r asks for went to id. *)
PlannedShare(r, id) ==
    Cardinality({j \in 1..Len(results) :
                    /\ OfPlanned(results[j])
                    /\ SameTarget(results[j], r)
                    /\ results[j].assigned_agent = id})

(* C16: among the confirmed tasks asking for one skill and zone, with m    *)
(* agents eligible for it at the start and the confirmed tasks in between  *)
(* drawing on disjoint agents, the k-th one (k <= m) is assigned an agent  *)
(* holding the k-th lowest rank of the m, and every later one is unmatched.*)
C16_KthTaskKthRank ==
    \A j \in 1..Len(results) :
        OfConfirmed(results[j]) =>
            LET pool == EligibleAtLoad(results[j])
                a == results[j].assigned_agent
                k == Cardinality({i \in 1..j : /\ OfConfirmed(results[i])
                                               /\ SameTarget(results[i], results[j])})
                apart == \A i \in 1..(j - 1) :
                             (OfConfirmed(results[i]) /\ ~SameTarget(results[i], results[j]))
                                 => EligibleAtLoad(results[i]) \cap pool = {}
            IN apart =>
                   IF k <= Cardinality(pool)
                   THEN /\ a \in pool
                        /\ Cardinality({b \in pool : SuppliedRank(b) < SuppliedRank(a)}) < k
                        /\ k <= Cardinality({b \in pool : SuppliedRank(b) <= SuppliedRank(a)})
                   ELSE a = ""

(* Two agents supplied in descending rank order serve the first and the    *)
(* third confirmed task, a task for another skill and zone in between.     *)
C16_Witness ==
    /\ Len(results) = 3
    /\ \A j \in 1..3 : OfConfirmed(results[j])
    /\ SameTarget(results[1], results[3]) /\ ~SameTarget(results[1], results[2])
    /\ Len(agent_rows) = 2
    /\ agent_rows[1].queue_rank > agent_rows[2].queue_rank
    /\ results[1].assigned_agent = agent_rows[2].agent_id
    /\ results[3].assigned_agent = agent_rows[1].agent_id

(* C17: n consecutive planned tasks sharing a candidate sequence of length *)
(* n are assigned the candidates in cyclic order starting at position      *)
(* (cursor mod n), each candidate exactly once.                            *)
C17_FullCycleInOrder ==
    LET pl == PlannedPositions
    IN \A p \in 1..Len(pl) :
           LET first == results[pl[p]]
               cands == eligible_agents(agents, first.required_skill, first.zone)
               n == Len(cands)
           IN (/\ n >= 1
               /\ p + n - 1 <= Len(pl)
               /\ \A i \in 0..(n - 1) : SameTarget(results[pl[p + i]], first))
              => /\ \A i \in 0..(n - 1) :
                       results[pl[p + i]].assigned_agent =
                           agents[cands[(((p - 1) + i) % n) + 1]].agent_id
                 /\ \A c \in 1..n :
                       Cardinality({i \in 0..(n - 1) :
                           results[pl[p + i]].assigned_agent = agents[cands[c]].agent_id}) = 1

(* With the cursor at 0 and two candidates the first task gets the first   *)
(* candidate and the second the second; a third task wraps to the first.   *)
C17_Witness ==
    /\ pc = "done"
    /\ Len(results) = 3
    /\ \A j \in 1..3 : OfPlanned(results[j]) /\ SameTarget(results[j], results[1])
    /\ Len(agents) = 2
    /\ eligible_agents(agents, results[1].required_skill, results[1].zone) = <<1, 2>>
    /\ results[1].assigned_agent = agents[1].agent_id
    /\ results[2].assigned_agent = agents[2].agent_id
    /\ results[3].assigned_agent = agents[1].agent_id

(* C18: a step of the confirmed loop changes no agent when the task is     *)
(* unmatched and exactly the chosen agent's flag, from true to false, when *)
(* it is matched; roster membership and order, skills, zone, rank and the  *)
(* cursor stay; and no step of the run turns a flag from false to true.    *)
C18_ConfirmedStepFrame ==
    [][/\ (pc = "confirmed" /\ c_pos' = c_pos + 1) =>
            LET r == results'[Len(results')]
                changed == {k \in 1..Len(agents) : agents'[k] # agents[k]}
            IN /\ Len(results') = Len(results) + 1
               /\ Len(agents') = Len(agents)
               /\ \A k \in 1..Len(agents) :
                     /\ agents'[k].agent_id = agents[k].agent_id
                     /\ agents'[k].skills = agents[k].skills
                     /\ agents'[k].zone = agents[k].zone
                     /\ agents'[k].queue_rank = agents[k].queue_rank
               /\ rr_index' = rr_index
               /\ IF r.assigned_agent = ""
                  THEN changed = {}
                  ELSE \E k \in 1..Len(agents) :
                           /\ changed = {k}
                           /\ agents[k].agent_id = r.assigned_agent
                           /\ agents[k].is_available
                           /\ ~agents'[k].is_available
       /\ pc # "start" =>
            \A k \in 1..Len(agents) :
                ~agents[k].is_available => ~agents'[k].is_available]_vars

(* A confirmed task took one of two eligible agents; the other one is      *)
(* still available.                                                        *)
C18_Witness ==
    \E j \in 1..Len(results) :
        /\ OfConfirmed(results[j]) /\ Matched(results[j])
        /\ \E k \in 1..Len(agents) :
              /\ agents[k].agent_id \in EligibleAt(j)
              /\ agents[k].agent_id # results[j].assigned_agent
              /\ agents[k].is_available

(* C19: an agent named in a decision record was supplied in the roster,    *)
(* has the task's skill, stands in the task's zone and was available when  *)
(* the run started.                                                        *)
C19_AssignedAgentFits ==
    \A j \in 1..Len(results) :
        Matched(results[j]) =>
            \E k \in 1..Len(agent_rows) :
                /\ agent_rows[k].agent_id = results[j].assigned_agent
                /\ results[j].required_skill \in parse_skills(agent_rows[k].skills)
                /\ agent_rows[k].zone = results[j].zone
                /\ Upper(agent_rows[k].is_available) = CellTRUE

(* The agent of lowest rank fits the task in skill and zone but was        *)
(* unavailable at load; the task went to the other agent.                  *)
C19_Witness ==
    /\ Len(agent_rows) = 2
    /\ \E j \in 1..Len(results) :
          /\ Matched(results[j])
          /\ \E k \in 1..2 :
                /\ agent_rows[k].agent_id # results[j].assigned_agent
                /\ results[j].required_skill \in parse_skills(agent_rows[k].skills)
                /\ agent_rows[k].zone = results[j].zone
                /\ Upper(agent_rows[k].is_available) # CellTRUE

(* C20 as stated: among the planned tasks asking for one skill and zone,   *)
(* any two candidates differ by at most one in the number of tasks they    *)
(* received, whatever planned tasks were processed in between.             *)
C20_EvenShares ==
    \A j \in 1..Len(results) :
        OfPlanned(results[j]) =>
            \A a, b \in EligibleAt(j) :
                PlannedShare(results[j], a) - PlannedShare(results[j], b) <= 1

(* C20: among the planned tasks asking for one skill and zone, any two     *)
(* candidates differ by at most one in the number of tasks they received,  *)
(* provided these tasks were processed one after the other with no other   *)
(* planned task in between.                                                *)
C20_EvenSharesWhenConsecutive ==
    LET pl == PlannedPositions
    IN \A p \in 1..Len(pl) :
           LET r == results[pl[p]]
               consecutive ==
                   \A q \in 1..Len(pl) :
                       (q < p /\ SameTarget(results[pl[q]], r)) =>
                           \A h \in q..p : SameTarget(results[pl[h]], r)
           IN (consecutive /\ \A q \in p..Len(pl) : q > p => ~SameTarget(results[pl[q]], r))
              => \A a, b \in EligibleAt(pl[p]) :
                     PlannedShare(r, a) - PlannedShare(r, b) <= 1

(* Three planned tasks in a row share two candidates: two tasks for one,   *)
(* one for the other.                                                      *)
C20_Witness ==
    /\ pc = "done"
    /\ Len(results) = 3
    /\ \A j \in 1..3 : OfPlanned(results[j]) /\ SameTarget(results[j], results[1])
    /\ \E a, b \in EligibleAt(1) :
          a # b /\ PlannedShare(results[1], a) = 2 /\ PlannedShare(results[1], b) = 1

====
